---------------------------- MODULE Spec2Model ----------------------------
(***************************************************************************)
(* Model of src/src/components/ProductForm.tsx: the ProductForm component  *)
(* (its state hooks and event handlers), validateProductForm and           *)
(* validatePriceRange.                                                     *)
(*                                                                         *)
(* A JavaScript string is a sequence of one-character strings              *)
(* (<<"1", ".", "5">> is "1.5"), so that trim, length, the regular         *)
(* expression and parseFloat/parseInt are computed character by character. *)
(***************************************************************************)
EXTENDS Integers, Sequences, FiniteSets, TLC

(***************************************************************************)
(* Bounds of the explored inputs.                                          *)
(***************************************************************************)
MaxPad == 2
MaxNameLen == 52
MaxPriceLen == 5
MaxStockLen == 4
MaxDescLen == 201
MaxRangeLen == 3

(***************************************************************************)
(* Characters.                                                             *)
(***************************************************************************)
Digits == {"0", "1", "2", "3", "4", "5", "6", "7", "8", "9"}
HexDigits == Digits \cup {"a", "b", "c", "d", "e", "f", "A", "B", "C", "D", "E", "F"}
\* the white space String.prototype.trim, parseFloat and parseInt skip
WhiteSpace == {" ", "\t", "\n", "\r"}

DigitVal(c) ==
    CASE c = "0" -> 0 [] c = "1" -> 1 [] c = "2" -> 2 [] c = "3" -> 3
      [] c = "4" -> 4 [] c = "5" -> 5 [] c = "6" -> 6 [] c = "7" -> 7
      [] c = "8" -> 8 [] c = "9" -> 9
      [] c \in {"a", "A"} -> 10 [] c \in {"b", "B"} -> 11
      [] c \in {"c", "C"} -> 12 [] c \in {"d", "D"} -> 13
      [] c \in {"e", "E"} -> 14 [] c \in {"f", "F"} -> 15

\* the character of s at index i, or "" past the end
At(s, i) == IF i >= 1 /\ i <= Len(s) THEN s[i] ELSE ""

RECURSIVE Run(_, _, _)
\* the length of the longest run of characters of set cs in s starting at i
Run(s, i, cs) == IF At(s, i) \in cs THEN 1 + Run(s, i + 1, cs) ELSE 0

RECURSIVE ToNat(_, _, _, _)
\* the value of the n digits of s that start at i, in the given radix
ToNat(s, i, n, radix) ==
    IF n = 0 THEN 0
    ELSE ToNat(s, i, n - 1, radix) * radix + DigitVal(s[i + n - 1])

RECURSIVE Pow10(_)
Pow10(n) == IF n = 0 THEN 1 ELSE 10 * Pow10(n - 1)

\* the string of n characters c
Rep(c, n) == [i \in 1..n |-> c]

(***************************************************************************)
(* JavaScript values and built-ins used by the validators.                 *)
(***************************************************************************)
\* String.prototype.trim
trim(s) ==
    LET lead == Run(s, 1, WhiteSpace)
        RECURSIVE Back(_)
        Back(j) == IF j >= 1 /\ s[j] \in WhiteSpace THEN Back(j - 1) ELSE j
        last == Back(Len(s))
    IN  IF lead = Len(s) THEN <<>> ELSE SubSeq(s, lead + 1, last)

\* A number is NaN, an infinity, or (-1)^neg * m * 10^e with m not a
\* multiple of 10 unless it is 0 (then e = 0, and -0 is kept as 0: every
\* comparison of the code treats them alike).
NaN == [kind |-> "NaN"]
Infinity(neg) == [kind |-> "Infinity", neg |-> neg]

RECURSIVE Num(_, _, _)
Num(neg, m, e) ==
    IF m = 0 THEN [kind |-> "num", neg |-> FALSE, m |-> 0, e |-> 0]
    ELSE IF m % 10 = 0 THEN Num(neg, m \div 10, e + 1)
    ELSE [kind |-> "num", neg |-> neg, m |-> m, e |-> e]

isNaN(v) == v.kind = "NaN"

\* v < 0; false for NaN as every comparison with NaN
LtZero(v) == v.kind # "NaN" /\ v.neg /\ (v.kind = "Infinity" \/ v.m > 0)
\* v <= 0
LeZero(v) == v.kind # "NaN" /\ (v.neg \/ (v.kind = "num" /\ v.m = 0))

\* a > b for finite non-negative a, b
MagGt(a, b) ==
    LET lo == IF a.e < b.e THEN a.e ELSE b.e
    IN  a.m * Pow10(a.e - lo) > b.m * Pow10(b.e - lo)

\* a > b; false when either is NaN
Gt(a, b) ==
    /\ a.kind # "NaN" /\ b.kind # "NaN"
    /\ a # b
    /\ CASE a.kind = "Infinity" -> ~a.neg
         [] b.kind = "Infinity" -> b.neg
         [] a.neg /\ ~b.neg -> FALSE
         [] ~a.neg /\ b.neg -> TRUE
         [] ~a.neg /\ ~b.neg -> MagGt(a, b)
         [] OTHER -> MagGt(b, a)

InfinityWord == <<"I", "n", "f", "i", "n", "i", "t", "y">>

\* parseFloat: skips leading white space, then reads the longest prefix that
\* is a decimal literal (sign, digits, fraction, exponent) and ignores the
\* rest; NaN when no prefix is one.
parseFloat(s) ==
    LET i0 == 1 + Run(s, 1, WhiteSpace)
        neg == At(s, i0) = "-"
        i1 == IF At(s, i0) \in {"+", "-"} THEN i0 + 1 ELSE i0
        nInt == Run(s, i1, Digits)
        hasDot == At(s, i1 + nInt) = "."
        nFrac == IF hasDot THEN Run(s, i1 + nInt + 1, Digits) ELSE 0
        j == i1 + nInt + (IF hasDot THEN 1 + nFrac ELSE 0)
        hasE == At(s, j) \in {"e", "E"}
        eNeg == At(s, j + 1) = "-"
        k == IF At(s, j + 1) \in {"+", "-"} THEN j + 2 ELSE j + 1
        nExp == IF hasE THEN Run(s, k, Digits) ELSE 0
        exp == IF eNeg THEN 0 - ToNat(s, k, nExp, 10) ELSE ToNat(s, k, nExp, 10)
        mant == ToNat(s, i1, nInt, 10) * Pow10(nFrac)
                  + ToNat(s, i1 + nInt + 1, nFrac, 10)
    IN  IF i1 + 7 <= Len(s) /\ SubSeq(s, i1, i1 + 7) = InfinityWord
        THEN Infinity(neg)
        ELSE IF nInt = 0 /\ nFrac = 0 THEN NaN
        ELSE Num(neg, mant, exp - nFrac)

\* parseInt without a radix: skips leading white space, takes a sign, a 0x
\* or 0X prefix (radix 16), then the longest run of digits and ignores the
\* rest; NaN when there is no digit.
parseInt(s) ==
    LET i0 == 1 + Run(s, 1, WhiteSpace)
        neg == At(s, i0) = "-"
        i1 == IF At(s, i0) \in {"+", "-"} THEN i0 + 1 ELSE i0
        hex == At(s, i1) = "0" /\ At(s, i1 + 1) \in {"x", "X"}
        i2 == IF hex THEN i1 + 2 ELSE i1
        n == Run(s, i2, IF hex THEN HexDigits ELSE Digits)
    IN  IF n = 0 THEN NaN
        ELSE Num(neg, ToNat(s, i2, n, IF hex THEN 16 ELSE 10), 0)

\* /^\d+(\.\d{1,2})?$/.test(s)
PriceRegex(s) ==
    LET k == Run(s, 1, Digits)
        d == Run(s, k + 2, Digits)
    IN  /\ k >= 1
        /\ \/ k = Len(s)
           \/ /\ At(s, k + 1) = "."
              /\ d \in {1, 2}
              /\ k + 1 + d = Len(s)

(***************************************************************************)
(* The draft (FormData), lines 24-31 and 330-337.                          *)
(***************************************************************************)
categories == {"Electronics", "Clothing", "Books", "Home", "Sports", "Other"}

\* a File object of the file input; NoFile is null
Files == {"file1"}
NoFile == "null"

\* the fields a FormErrors object may carry, lines 33-40 and 339-346
Fields == {"name", "price", "category", "stockQuantity", "description", "imageFile"}

Draft(n, p, c, q, d, f) ==
    [name |-> n, price |-> p, category |-> c, stockQuantity |-> q,
     description |-> d, imageFile |-> f]

\* the object {}: an errors object with no key
NoErrors == [k \in {} |-> ""]

\* errors[key] = msg
Put(errs, key, msg) ==
    [k \in DOMAIN errs \cup {key} |-> IF k = key THEN msg ELSE errs[k]]

(***************************************************************************)
(* validateProductForm, lines 353-403, block by block: each block takes    *)
(* the errors object built so far and returns it with its own entry added. *)
(***************************************************************************)
\* a wrong version: measures the untrimmed name
ValidateNameUntrimmed(errs, data) ==
    IF Len(data.name) = 0
    THEN Put(errs, "name", "Product name is required")
    ELSE IF Len(data.name) < 3
    THEN Put(errs, "name", "Product name must be at least 3 characters")
    ELSE IF Len(data.name) > 50
    THEN Put(errs, "name", "Product name must not exceed 50 characters")
    ELSE errs

ValidateName(errs, data) ==
    IF Len(trim(data.name)) = 0
    THEN Put(errs, "name", "Product name is required")
    ELSE IF Len(trim(data.name)) < 3
    THEN Put(errs, "name", "Product name must be at least 3 characters")
    ELSE IF Len(trim(data.name)) > 50
    THEN Put(errs, "name", "Product name must not exceed 50 characters")
    ELSE errs

\* a wrong version: tests the pattern before the sign
ValidatePricePatternFirst(errs, data) ==
    IF Len(data.price) = 0
    THEN Put(errs, "price", "Price is required")
    ELSE LET price == parseFloat(data.price)
         IN  IF ~PriceRegex(data.price)
             THEN Put(errs, "price", "Price must have at most 2 decimal places")
             ELSE IF isNaN(price) \/ LeZero(price)
             THEN Put(errs, "price", "Price must be a positive number")
             ELSE errs

ValidatePrice(errs, data) ==
    IF Len(data.price) = 0
    THEN Put(errs, "price", "Price is required")
    ELSE LET price == parseFloat(data.price)
         IN  IF isNaN(price) \/ LeZero(price)
             THEN Put(errs, "price", "Price must be a positive number")
             ELSE IF ~PriceRegex(data.price)
             THEN Put(errs, "price", "Price must have at most 2 decimal places")
             ELSE errs

\* a wrong version: never reports the category
ValidateCategoryNever(errs, data) == errs

\* !data.category: the empty string is the only falsy value of the field
ValidateCategory(errs, data) ==
    IF data.category = ""
    THEN Put(errs, "category", "Category is required")
    ELSE errs

ValidateStock(errs, data) ==
    IF Len(data.stockQuantity) = 0
    THEN Put(errs, "stockQuantity", "Stock quantity is required")
    ELSE LET quantity == parseInt(data.stockQuantity)
         IN  IF isNaN(quantity) \/ LtZero(quantity)
             THEN Put(errs, "stockQuantity",
                      "Stock quantity must be a non-negative integer")
             ELSE errs

\* a wrong version: the limit is reached at 200
ValidateDescriptionOffByOne(errs, data) ==
    IF Len(data.description) # 0 /\ Len(data.description) >= 200
    THEN Put(errs, "description", "Description must not exceed 200 characters")
    ELSE errs

ValidateDescription(errs, data) ==
    IF Len(data.description) # 0 /\ Len(data.description) > 200
    THEN Put(errs, "description", "Description must not exceed 200 characters")
    ELSE errs

\* a wrong version: stops at the first field that fails
validateProductFormShortCircuit(data) ==
    LET e1 == ValidateName(NoErrors, data)
        e2 == IF e1 # NoErrors THEN e1 ELSE ValidatePrice(e1, data)
        e3 == IF e2 # NoErrors THEN e2 ELSE ValidateCategory(e2, data)
        e4 == IF e3 # NoErrors THEN e3 ELSE ValidateStock(e3, data)
        e5 == IF e4 # NoErrors THEN e4 ELSE ValidateDescription(e4, data)
    IN  [isValid |-> DOMAIN e5 = {}, errors |-> e5]

validateProductForm(data) ==
    LET e1 == ValidateName(NoErrors, data)
        e2 == ValidatePrice(e1, data)
        e3 == ValidateCategory(e2, data)
        e4 == ValidateStock(e3, data)
        e5 == ValidateDescription(e4, data)
    IN  [isValid |-> DOMAIN e5 = {}, errors |-> e5]

(***************************************************************************)
(* validatePriceRange, lines 410-421.  A result without the error key is   *)
(* the record with isValid alone.                                          *)
(***************************************************************************)
\* a wrong version: checks max before min
validatePriceRangeMaxFirst(min, max) ==
    IF Len(max) # 0 /\ (~PriceRegex(max) \/ LtZero(parseFloat(max)))
    THEN [isValid |-> FALSE, error |-> "Maximum price must be a positive number"]
    ELSE IF Len(min) # 0 /\ (~PriceRegex(min) \/ LtZero(parseFloat(min)))
    THEN [isValid |-> FALSE, error |-> "Minimum price must be a positive number"]
    ELSE IF Len(min) # 0 /\ Len(max) # 0 /\ Gt(parseFloat(min), parseFloat(max))
    THEN [isValid |-> FALSE,
          error |-> "Minimum price cannot be greater than maximum price"]
    ELSE [isValid |-> TRUE]

validatePriceRange(min, max) ==
    IF Len(min) # 0 /\ (~PriceRegex(min) \/ LtZero(parseFloat(min)))
    THEN [isValid |-> FALSE, error |-> "Minimum price must be a positive number"]
    ELSE IF Len(max) # 0 /\ (~PriceRegex(max) \/ LtZero(parseFloat(max)))
    THEN [isValid |-> FALSE, error |-> "Maximum price must be a positive number"]
    ELSE IF Len(min) # 0 /\ Len(max) # 0 /\ Gt(parseFloat(min), parseFloat(max))
    THEN [isValid |-> FALSE,
          error |-> "Minimum price cannot be greater than maximum price"]
    ELSE [isValid |-> TRUE]

(***************************************************************************)
(* State.  The component's hooks, the submit that awaits its image, what   *)
(* the handlers called in the last step, and the arguments and results of  *)
(* the calls of the two exported validators.                               *)
(***************************************************************************)
VARIABLES
    formData,       \* useState<FormData>, line 46
    errors,         \* useState<FormErrors>, line 54
    isSubmitting,   \* useState(false), line 55
    imagePreview,   \* useState<string | null>, line 56
    product,        \* the product prop, line 44
    pending,        \* the handleSubmit call suspended at the await of line 116
    storageCall,    \* the addProduct/updateProduct call of the last step
    onCloseCalled,  \* whether the last step called onClose
    submitPath,     \* how the last step left handleSubmit
    validated,      \* the draft validated at line 106 by the handleSubmit call that
                    \* is suspended or ended in the last step (else the empty draft)
    data,           \* validateProductForm's argument
    result,         \* and its result
    data2,          \* a second call of validateProductForm
    result2,
    min,            \* validatePriceRange's arguments
    max,
    rangeResult     \* and its result

formVars == <<formData, errors, isSubmitting, imagePreview, product, pending,
              storageCall, onCloseCalled, submitPath, validated>>
callVars == <<data, result, data2, result2>>
rangeVars == <<min, max, rangeResult>>
vars == <<formVars, callVars, rangeVars>>

\* no call made yet
NoResult == [called |-> FALSE]

(***************************************************************************)
(* Inputs of validateProductForm.                                          *)
(***************************************************************************)
\* white space of length k: spaces and tabs
Pad(k) == [i \in 1..k |-> IF i % 2 = 1 THEN " " ELSE "\t"]
\* a name of n characters with a space inside
NameBody(n) == [i \in 1..n |-> IF i = 2 /\ n >= 3 THEN " " ELSE "a"]

\* the characters of the explored prices, stock quantities and price bounds
PriceChars == {"0", "1", ".", "-", "e", " "}
StockChars == {"0", "1", ".", "-", "x", " "}
RangeChars == {"0", "1", "9", ".", "-"}
CategoryInputs == categories \cup {""}
FileInputs == Files \cup {NoFile}

ValidDraft ==
    Draft(<<"M", "o", "u", "s", "e">>, <<"2", "9", ".", "9", "9">>, "Electronics",
          <<"1", "5">>, <<>>, NoFile)
InvalidDraft ==
    Draft(<<>>, <<"0">>, "", <<"-", "1">>, <<" ", "d", " ">>, "file1")

\* for the comparison of two calls: a few values of each field, one for each
\* outcome of its block
PairNames == {<<" ", " ">>, <<"a", "b">>, <<" ", "a", "b", "c", " ">>, Rep("a", 51)}
PairPrices == {<<>>, <<"0">>, <<"1", ".", "5", "0">>, <<"1", ".", "1", "1", "1">>}
PairCategories == {"", "Books"}
PairStocks == {<<>>, <<"-", "1">>, <<"7">>}
PairDescriptions == {<<>>, <<" ", "d", " ">>, Rep("d", 201)}

(***************************************************************************)
(* The form at rest, for the specifications that only call a validator.    *)
(***************************************************************************)
EmptyForm == Draft(<<>>, <<>>, "", <<>>, <<>>, NoFile)
NoProduct == [id |-> "none"]
NoPending == [awaiting |-> FALSE]
NoCall == [op |-> "none"]

FormAtRest ==
    /\ formData = EmptyForm
    /\ errors = NoErrors
    /\ isSubmitting = FALSE
    /\ imagePreview = "null"
    /\ product = NoProduct
    /\ pending = NoPending
    /\ storageCall = NoCall
    /\ onCloseCalled = FALSE
    /\ submitPath = "none"
    /\ validated = EmptyForm

CallsAtRest ==
    /\ data = EmptyForm /\ result = NoResult
    /\ data2 = EmptyForm /\ result2 = NoResult

RangeAtRest == min = <<>> /\ max = <<>> /\ rangeResult = NoResult

(***************************************************************************)
(* SpecValidate: one call of validateProductForm.                          *)
(***************************************************************************)
\* the draft differs in one field from ValidDraft, or from InvalidDraft, whose
\* name, price, category and stock quantity fail
InitValidate ==
    /\ \E b \in {ValidDraft, InvalidDraft} :
          \/ \E l \in 0..MaxPad, t \in 0..MaxPad, n \in 0..MaxNameLen :
                data = [b EXCEPT !.name = Pad(l) \o NameBody(n) \o Pad(t)]
          \/ \E k \in 0..MaxPriceLen : \E x \in [1..k -> PriceChars] :
                data = [b EXCEPT !.price = x]
          \/ \E x \in CategoryInputs : data = [b EXCEPT !.category = x]
          \/ \E k \in 0..MaxStockLen : \E x \in [1..k -> StockChars] :
                data = [b EXCEPT !.stockQuantity = x]
          \/ \E c \in {"d", " "}, n \in 0..MaxDescLen :
                data = [b EXCEPT !.description = Rep(c, n)]
          \/ \E x \in FileInputs : data = [b EXCEPT !.imageFile = x]
    /\ result = NoResult
    /\ data2 = EmptyForm /\ result2 = NoResult
    /\ FormAtRest /\ RangeAtRest

CallValidate ==
    /\ result = NoResult
    /\ result' = validateProductForm(data)
    /\ UNCHANGED <<data, data2, result2, formVars, rangeVars>>

NextValidate == CallValidate

SpecValidate == InitValidate /\ [][NextValidate]_vars

(***************************************************************************)
(* SpecPair: validateProductForm called on two drafts.                     *)
(***************************************************************************)
InitPair ==
    /\ \E n \in PairNames, p \in PairPrices, c \in PairCategories, q \in PairStocks,
          d \in PairDescriptions, f \in FileInputs : data = Draft(n, p, c, q, d, f)
    /\ \E n \in PairNames, p \in PairPrices, c \in PairCategories, q \in PairStocks,
          d \in PairDescriptions, f \in FileInputs : data2 = Draft(n, p, c, q, d, f)
    /\ result = NoResult /\ result2 = NoResult
    /\ FormAtRest /\ RangeAtRest

CallValidatePair ==
    /\ result = NoResult
    /\ result' = validateProductForm(data)
    /\ result2' = validateProductForm(data2)
    /\ UNCHANGED <<data, data2, formVars, rangeVars>>

NextPair == CallValidatePair

SpecPair == InitPair /\ [][NextPair]_vars

(***************************************************************************)
(* SpecRange: one call of validatePriceRange on any two strings.           *)
(***************************************************************************)
InitRange ==
    /\ \E k \in 0..MaxRangeLen : min \in [1..k -> RangeChars]
    /\ \E k \in 0..MaxRangeLen : max \in [1..k -> RangeChars]
    /\ rangeResult = NoResult
    /\ FormAtRest /\ CallsAtRest

CallValidateRange ==
    /\ rangeResult = NoResult
    /\ rangeResult' = validatePriceRange(min, max)
    /\ UNCHANGED <<min, max, formVars, callVars>>

NextRange == CallValidateRange

SpecRange == InitRange /\ [][NextRange]_vars

(***************************************************************************)
(* The ProductForm component, lines 44-326.                                *)
(***************************************************************************)
\* the value undefined of an optional string, and of an optional text
Undefined == "undefined"
UndefinedText == <<"undefined">>

DigitChar(d) ==
    CASE d = 0 -> "0" [] d = 1 -> "1" [] d = 2 -> "2" [] d = 3 -> "3" [] d = 4 -> "4"
      [] d = 5 -> "5" [] d = 6 -> "6" [] d = 7 -> "7" [] d = 8 -> "8" [] d = 9 -> "9"

RECURSIVE NatToString(_)
NatToString(n) ==
    IF n < 10 THEN <<DigitChar(n)>>
    ELSE Append(NatToString(n \div 10), DigitChar(n % 10))

\* Number.prototype.toString of a number written without an exponent (all
\* those a product of this model holds)
toString(v) ==
    IF v.kind = "NaN" THEN <<"N", "a", "N">>
    ELSE IF v.kind = "Infinity"
    THEN (IF v.neg THEN <<"-">> ELSE <<>>) \o InfinityWord
    ELSE LET sign == IF v.neg THEN <<"-">> ELSE <<>>
             scale == IF v.e < 0 THEN Pow10(0 - v.e) ELSE 1
             whole == IF v.e < 0 THEN v.m \div scale ELSE v.m * Pow10(v.e)
             frac == IF v.e < 0 THEN NatToString(v.m % scale) ELSE <<>>
             zeros == IF v.e < 0 THEN Rep("0", (0 - v.e) - Len(frac)) ELSE <<>>
         IN  sign \o NatToString(whole)
               \o (IF v.e < 0 THEN <<".">> \o zeros \o frac ELSE <<>>)

\* the products the parent may pass as the product prop
Products ==
    {[id |-> "p1", name |-> <<"a", "b", "c">>, price |-> Num(FALSE, 15, -1),
      category |-> "Books", stockQuantity |-> Num(FALSE, 7, 0),
      description |-> UndefinedText, imageUrl |-> "url1"]}

\* what the user can enter in each field
FormInputs ==
    [name |-> {<<>>, <<" ", "a", "b", "c", " ">>},
     price |-> {<<>>, <<"1", ".", "5", "0">>},
     category |-> {"", "Books"},
     stockQuantity |-> {<<>>, <<"7">>},
     description |-> {<<>>, <<" ", "d", " ">>}]

\* the draft of lines 60-67 (147-155) for a product, of lines 70-77
\* (158-165) without one
SeedDraft(p) ==
    IF p # NoProduct
    THEN Draft(p.name, toString(p.price), p.category, toString(p.stockQuantity),
               IF p.description = UndefinedText THEN <<>> ELSE p.description, NoFile)
    ELSE EmptyForm

\* product.imageUrl || null, product?.imageUrl || null
SeedPreview(p) ==
    IF p # NoProduct /\ p.imageUrl # Undefined THEN p.imageUrl ELSE "null"

\* lines 122-124: the image the product has already
ExistingImageUrl(p) ==
    IF p # NoProduct /\ p.imageUrl # Undefined THEN p.imageUrl ELSE Undefined

\* URL.createObjectURL(file), and the result of readAsDataURL(file)
ObjectURL(file) == CASE file = "file1" -> "blob:file1"
DataURL(file) == CASE file = "file1" -> "data:file1"

\* lines 125-132
ProductData(fd, imageUrl) ==
    [name |-> trim(fd.name),
     price |-> parseFloat(fd.price),
     category |-> fd.category,
     stockQuantity |-> parseInt(fd.stockQuantity),
     description |-> IF Len(trim(fd.description)) = 0 THEN UndefinedText
                     ELSE trim(fd.description),
     imageUrl |-> imageUrl]

\* lines 133-137: updateProduct({...product, ...productData}) or
\* addProduct(productData)
StorageCall(p, productData) ==
    IF p # NoProduct
    THEN [op |-> "updateProduct",
          arg |-> [id |-> p.id, name |-> productData.name, price |-> productData.price,
                   category |-> productData.category,
                   stockQuantity |-> productData.stockQuantity,
                   description |-> productData.description,
                   imageUrl |-> productData.imageUrl]]
    ELSE [op |-> "addProduct", arg |-> productData]

\* errors[field] is a non-empty string
HasError(errs, field) == field \in DOMAIN errs /\ errs[field] # Undefined

\* the state after construction and the effect of lines 58-80
Init ==
    /\ product \in Products \cup {NoProduct}
    /\ formData = SeedDraft(product)
    /\ imagePreview = SeedPreview(product)
    /\ errors = NoErrors
    /\ isSubmitting = FALSE
    /\ pending = NoPending
    /\ storageCall = NoCall
    /\ onCloseCalled = FALSE
    /\ submitPath = "none"
    /\ validated = EmptyForm
    /\ CallsAtRest /\ RangeAtRest

\* a step that leaves handleSubmit alone calls neither the storage nor onClose
NoSubmitStep ==
    /\ storageCall' = NoCall
    /\ onCloseCalled' = FALSE
    /\ submitPath' = "none"
    /\ validated' = IF pending # NoPending THEN validated ELSE EmptyForm
    /\ UNCHANGED <<callVars, rangeVars>>

\* the parent passes another product: the effect of lines 58-80
ProductChange(p) ==
    /\ p # product
    /\ product' = p
    /\ formData' = SeedDraft(p)
    /\ imagePreview' = SeedPreview(p)
    /\ NoSubmitStep
    /\ UNCHANGED <<errors, isSubmitting, pending>>

\* lines 82-87
handleInputChange(field, value) ==
    /\ formData' = [formData EXCEPT ![field] = value]
    /\ errors' = IF HasError(errors, field) THEN Put(errors, field, Undefined) ELSE errors
    /\ NoSubmitStep
    /\ UNCHANGED <<isSubmitting, imagePreview, product, pending>>

\* lines 89-100
handleFileChange(file) ==
    /\ formData' = [formData EXCEPT !.imageFile = file]
    /\ imagePreview' = IF file # NoFile THEN ObjectURL(file) ELSE SeedPreview(product)
    /\ errors' = IF HasError(errors, "imageFile")
                 THEN Put(errors, "imageFile", Undefined) ELSE errors
    /\ NoSubmitStep
    /\ UNCHANGED <<isSubmitting, product, pending>>

\* lines 125-138 and 141-143: the record is built from the draft and the
\* product the call of handleSubmit holds, the storage and onClose are
\* called, isSubmitting is reset
Store(fd, p, imageUrl) ==
    /\ storageCall' = StorageCall(p, ProductData(fd, imageUrl))
    /\ onCloseCalled' = TRUE
    /\ isSubmitting' = FALSE
    /\ submitPath' = "stored"

\* a wrong version: goes on after a failed validation
handleSubmitNoReturn ==
    /\ ~isSubmitting
    /\ validated' = formData
    /\ errors' = IF validateProductForm(formData).errors # NoErrors
                 THEN validateProductForm(formData).errors ELSE errors
    /\ Store(formData, product, Undefined)
    /\ UNCHANGED <<formData, imagePreview, product, pending, callVars, rangeVars>>

\* lines 102-144, up to the await of line 116 or, without an image, to the
\* end.  The submit button is disabled while isSubmitting (line 317).
handleSubmit ==
    /\ ~isSubmitting
    /\ validated' = formData
    /\ LET validationErrors == validateProductForm(formData).errors
       IN  IF DOMAIN validationErrors # {}
           THEN /\ errors' = validationErrors
                /\ isSubmitting' = FALSE
                /\ submitPath' = "invalid"
                /\ storageCall' = NoCall
                /\ onCloseCalled' = FALSE
                /\ UNCHANGED pending
           ELSE IF formData.imageFile # NoFile
           THEN /\ pending' = [awaiting |-> TRUE, formData |-> formData,
                               product |-> product]
                /\ isSubmitting' = TRUE
                /\ submitPath' = "awaiting"
                /\ storageCall' = NoCall
                /\ onCloseCalled' = FALSE
                /\ UNCHANGED errors
           ELSE /\ Store(formData, product, ExistingImageUrl(product))
                /\ UNCHANGED <<errors, pending>>
    /\ UNCHANGED <<formData, imagePreview, product, callVars, rangeVars>>

\* a wrong version: builds the record from the draft as it is now
readerLoadCurrentDraft ==
    /\ pending # NoPending
    /\ Store(formData, pending.product, DataURL(pending.formData.imageFile))
    /\ pending' = NoPending
    /\ UNCHANGED <<formData, errors, imagePreview, product, validated, callVars, rangeVars>>

\* reader.onload, line 118: the await of line 116 resumes with the data URL
readerLoad ==
    /\ pending # NoPending
    /\ Store(pending.formData, pending.product, DataURL(pending.formData.imageFile))
    /\ pending' = NoPending
    /\ UNCHANGED <<formData, errors, imagePreview, product, validated, callVars, rangeVars>>

\* a wrong version: no finally block
readerErrorNoFinally ==
    /\ pending # NoPending
    /\ pending' = NoPending
    /\ submitPath' = "readFailed"
    /\ storageCall' = NoCall
    /\ onCloseCalled' = FALSE
    /\ UNCHANGED <<isSubmitting, formData, errors, imagePreview, product, validated,
                   callVars, rangeVars>>

\* reader.onerror, line 119: the await throws, lines 139-143
readerError ==
    /\ pending # NoPending
    /\ pending' = NoPending
    /\ isSubmitting' = FALSE
    /\ submitPath' = "readFailed"
    /\ storageCall' = NoCall
    /\ onCloseCalled' = FALSE
    /\ UNCHANGED <<formData, errors, imagePreview, product, validated, callVars, rangeVars>>

\* lines 146-169; the button is disabled while isSubmitting (line 300)
handleReset ==
    /\ ~isSubmitting
    /\ formData' = SeedDraft(product)
    /\ imagePreview' = SeedPreview(product)
    /\ errors' = NoErrors
    /\ NoSubmitStep
    /\ UNCHANGED <<isSubmitting, product, pending>>

\* the Cancel button, lines 304-312: onClose, disabled while isSubmitting
cancel ==
    /\ ~isSubmitting
    /\ onCloseCalled' = TRUE
    /\ storageCall' = NoCall
    /\ submitPath' = "none"
    /\ validated' = EmptyForm
    /\ UNCHANGED <<formData, errors, isSubmitting, imagePreview, product, pending,
                   callVars, rangeVars>>

Next ==
    \/ \E p \in Products \cup {NoProduct} : ProductChange(p)
    \/ \E field \in DOMAIN FormInputs : \E value \in FormInputs[field] :
          handleInputChange(field, value)
    \/ \E file \in FileInputs : handleFileChange(file)
    \/ handleSubmit
    \/ readerLoad
    \/ readerError
    \/ handleReset
    \/ cancel

Spec == Init /\ [][Next]_vars

\* The image read completes, with load or with error: the steps that end the
\* suspended call are those of readerLoad and readerError, and one of them is
\* possible exactly while a call is suspended.
ReadCompletes == pending # NoPending /\ pending' = NoPending

LiveSpec == Spec /\ WF_pending(ReadCompletes)

(***************************************************************************)
(* The claims about the validators.                                        *)
(***************************************************************************)
Absent == "absent"
\* the entry of field f in an errors object
Entry(errs, f) == IF f \in DOMAIN errs THEN errs[f] ELSE Absent

\* the length of s without its leading and trailing white space
TrimmedLen(s) ==
    LET inner == {i \in 1..Len(s) : s[i] \notin WhiteSpace}
    IN  IF inner = {} THEN 0
        ELSE (CHOOSE j \in inner : \A i \in inner : i <= j)
               - (CHOOSE j \in inner : \A i \in inner : j <= i) + 1

IsDigitString(s) == Len(s) >= 1 /\ \A i \in 1..Len(s) : s[i] \in Digits

\* one or more digits, optionally followed by a dot and 1 or 2 digits
MatchesPricePattern(s) ==
    \E k \in 1..Len(s) :
        /\ IsDigitString(SubSeq(s, 1, k))
        /\ \/ k = Len(s)
           \/ /\ s[k + 1] = "."
              /\ Len(s) - k - 1 \in {1, 2}
              /\ IsDigitString(SubSeq(s, k + 2, Len(s)))

\* the value of a string that matches the pattern, in hundredths
Hundredths(s) ==
    LET k == CHOOSE k \in 1..Len(s) : k = Len(s) \/ s[k + 1] = "."
        frac == Len(s) - k - 1
    IN  IF k = Len(s) THEN 100 * ToNat(s, 1, k, 10)
        ELSE 100 * ToNat(s, 1, k, 10)
               + (IF frac = 1 THEN 10 ELSE 1) * ToNat(s, k + 2, frac, 10)

\* C5: the name has no error exactly when its trimmed length is in 3..50;
\* otherwise its message is that of the first failing rule: required
\* (nothing left after trimming), at least 3 characters, at most 50.
C5_NameRules ==
    result # NoResult =>
        LET n == TrimmedLen(data.name)
        IN  Entry(result.errors, "name") =
              IF n = 0 THEN "Product name is required"
              ELSE IF n < 3 THEN "Product name must be at least 3 characters"
              ELSE IF n > 50 THEN "Product name must not exceed 50 characters"
              ELSE Absent

\* a padded name longer than 50 whose trimmed length is 50 was accepted
C5_Witness ==
    /\ result # NoResult
    /\ Len(data.name) > 50
    /\ TrimmedLen(data.name) = 50
    /\ "name" \notin DOMAIN result.errors

\* C2: the price has no error exactly when it is non-empty, matches the
\* pattern and is greater than 0; otherwise its message is that of the first
\* failing rule: required, positive number (parseFloat gives NaN or a value
\* <= 0), at most 2 decimal places.
C2_PriceRules ==
    result # NoResult =>
        LET p == data.price
            e == Entry(result.errors, "price")
        IN  /\ e = Absent <=>
                  /\ Len(p) > 0
                  /\ MatchesPricePattern(p)
                  /\ Hundredths(p) > 0
            /\ e # Absent =>
                  e = IF Len(p) = 0 THEN "Price is required"
                      ELSE IF isNaN(parseFloat(p)) \/ LeZero(parseFloat(p))
                      THEN "Price must be a positive number"
                      ELSE "Price must have at most 2 decimal places"

\* a positive price with three decimals was rejected for its decimals
C2_Witness ==
    /\ result # NoResult
    /\ data.price = <<"1", ".", "1", "1", "1">>
    /\ Entry(result.errors, "price") = "Price must have at most 2 decimal places"

\* C3: the category has an error exactly when it is not one of the six
\* enumerated values.
C3_CategoryRule ==
    result # NoResult =>
        Entry(result.errors, "category") =
            IF data.category \in categories THEN Absent ELSE "Category is required"

\* the unselected category was rejected in an otherwise valid draft
C3_Witness ==
    /\ result # NoResult
    /\ data.category = ""
    /\ DOMAIN result.errors = {"category"}

\* the text of an integer >= 0: digits, or a minus sign and zeros
IsNonNegativeIntegerText(s) ==
    \/ IsDigitString(s)
    \/ /\ Len(s) >= 2 /\ s[1] = "-"
       /\ \A i \in 2..Len(s) : s[i] = "0"

\* C4: the stock quantity has an error when it is empty, is not the text of
\* an integer, or is negative, and none when it is the text of an integer
\* >= 0.
C4_StockRule ==
    result # NoResult =>
        (Entry(result.errors, "stockQuantity") = Absent
            <=> IsNonNegativeIntegerText(data.stockQuantity))

\* C8: the description has an error exactly when its untrimmed length
\* exceeds 200.
C8_DescriptionRule ==
    result # NoResult =>
        (Entry(result.errors, "description") # Absent <=> Len(data.description) > 200)

\* a description of 200 spaces was accepted
C8_Witness ==
    /\ result # NoResult
    /\ Len(data.description) = 200
    /\ TrimmedLen(data.description) = 0
    /\ "description" \notin DOMAIN result.errors

\* C7: two drafts that agree on a field get the same entry for it; the
\* image never has an entry; isValid says that no field has one.
C7_FieldsIndependent ==
    result # NoResult =>
        /\ \A f \in Fields :
              data[f] = data2[f] => Entry(result.errors, f) = Entry(result2.errors, f)
        /\ "imageFile" \notin DOMAIN result.errors
        /\ result.isValid <=> \A f \in Fields : Entry(result.errors, f) = Absent

\* two drafts with the same failing price, one of them failing everywhere
\* else and the other nowhere else
C7_Witness ==
    /\ result # NoResult
    /\ data.price = data2.price
    /\ DOMAIN result.errors = {"price"}
    /\ DOMAIN result2.errors = Fields \ {"imageFile"}

\* empty, or a string of the pattern
ValidBound(s) == Len(s) = 0 \/ MatchesPricePattern(s)

\* C6: the first failing rule decides: min invalid, then max invalid, then
\* min > max; everything else is valid, without an error.
C6_RangeRules ==
    rangeResult # NoResult =>
        rangeResult =
          IF ~ValidBound(min)
          THEN [isValid |-> FALSE, error |-> "Minimum price must be a positive number"]
          ELSE IF ~ValidBound(max)
          THEN [isValid |-> FALSE, error |-> "Maximum price must be a positive number"]
          ELSE IF Len(min) > 0 /\ Len(max) > 0 /\ Hundredths(min) > Hundredths(max)
          THEN [isValid |-> FALSE,
                error |-> "Minimum price cannot be greater than maximum price"]
          ELSE [isValid |-> TRUE]

\* both bounds invalid: the minimum is the one reported
C6_Witness ==
    /\ rangeResult # NoResult
    /\ ~ValidBound(min) /\ ~ValidBound(max)
    /\ rangeResult.error = "Minimum price must be a positive number"

(***************************************************************************)
(* The claims about the form.                                              *)
(***************************************************************************)
\* C1: the storage and, from handleSubmit, onClose are called only for a
\* draft validateProductForm found valid; a submit of a draft with a failing
\* field calls neither, stores the field errors and leaves the draft as it
\* was.
C1_AllOrNothing ==
    /\ storageCall # NoCall =>
          /\ submitPath = "stored"
          /\ onCloseCalled
          /\ validateProductForm(validated).isValid
    /\ submitPath = "stored" => storageCall # NoCall
    /\ (onCloseCalled /\ submitPath # "none") => submitPath = "stored"
    /\ submitPath = "invalid" =>
          /\ ~validateProductForm(validated).isValid
          /\ storageCall = NoCall
          /\ ~onCloseCalled
          /\ errors = validateProductForm(validated).errors
          /\ errors # NoErrors
          /\ formData = validated

\* the empty form was submitted: four fields failed and nothing was called
C1_Witness ==
    /\ submitPath = "invalid"
    /\ DOMAIN errors = {"name", "price", "category", "stockQuantity"}
    /\ storageCall = NoCall
    /\ ~onCloseCalled

\* C9: the record handed to the storage holds the normalized values of the
\* draft that handleSubmit validated, whatever was edited while the image
\* was read.
C9_SnapshotStored ==
    storageCall # NoCall =>
        /\ validateProductForm(validated).isValid
        /\ storageCall.arg.name = trim(validated.name)
        /\ storageCall.arg.price = Num(FALSE, Hundredths(validated.price), 0 - 2)
        /\ storageCall.arg.category = validated.category
        /\ storageCall.arg.stockQuantity = parseInt(validated.stockQuantity)
        /\ storageCall.arg.description =
              IF TrimmedLen(validated.description) = 0 THEN UndefinedText
              ELSE trim(validated.description)

\* the record was stored after the read of an image during which the draft
\* was edited into one that does not validate
C9_Witness ==
    /\ storageCall # NoCall
    /\ storageCall.arg.imageUrl = "data:file1"
    /\ formData # validated
    /\ ~validateProductForm(formData).isValid

\* C10: isSubmitting, once true, becomes false again; each of the three ends
\* of handleSubmit leaves it false; a failed image read calls neither the
\* storage nor onClose and leaves the draft as it is.
C10_SubmittingEnds ==
    /\ isSubmitting ~> ~isSubmitting
    /\ [][submitPath' \in {"invalid", "stored", "readFailed"} => ~isSubmitting']_vars
    /\ [][submitPath' = "readFailed" =>
            (storageCall' = NoCall /\ ~onCloseCalled' /\ formData' = formData)]_vars

\* an image read failed: nothing was called and the form can be submitted
C10_Witness ==
    /\ submitPath = "readFailed"
    /\ ~isSubmitting
    /\ storageCall = NoCall
    /\ ~onCloseCalled
    /\ validateProductForm(formData).isValid

=============================================================================
